---- MODULE Spec2Model ----
(***************************************************************************)
(* Model of the VGA text-buffer writer of src/src/vga_buffer.rs (Writer,   *)
(* its write_byte / write_string / new_line / clear_row methods, the       *)
(* global WRITER spin lock and _print) and of the panic path of            *)
(* src/src/main.rs.                                                        *)
(***************************************************************************)
EXTENDS Integers, Sequences, FiniteSets, TLC

(***************************************************************************)
(* Bounds of the model.  The program's grid is 25 x 80; the model keeps    *)
(* the names and scales the grid down.                                     *)
(***************************************************************************)
BUFFER_HEIGHT == 3

BUFFER_WIDTH == 3

\* Total number of bytes (and direct new_line calls) one behaviour may issue.
MaxBytes == 5

\* Longest string handed to write_string.
MaxLen == 4

\* Number of print!/println! calls the normal path makes in one behaviour.
MaxCalls == 2

\* Longest concatenation s1 \o s2 compared with its two halves.
MaxConcat == 3

\* Operations made by a Writer built with an arbitrary colour pair.
MaxColorOps == 1

\* Longest list of tests handed to test_runner.
MaxTests == 2

(***************************************************************************)
(* Program constants.                                                      *)
(***************************************************************************)
NEWLINE == 10

SPACE == 32

PRINTABLE_LO == 32

PRINTABLE_HI == 126

PLACEHOLDER == 254

Black == 0

LightGray == 7

Yellow == 14

White == 15

\* QemuExitCode
Success == 16

Failed == 17

\* enum Color, as u8.
Colors == Black .. White

Rows == 0 .. (BUFFER_HEIGHT - 1)

Cols == 0 .. (BUFFER_WIDTH - 1)

\* Bytes handed to write_byte (a u8): newline, a control code (0x01) and
\* two printable letters ('x', 'y').
Bytes == {NEWLINE, 1, 120, 121}

\* Bytes of the strings handed to write_string (a &str, so valid UTF-8): the
\* bytes above and the two bytes 0xC3 0xB6 that encode U+00F6.
StrBytes == Bytes \cup {195, 182}

IsUtf8(s) ==
    \A i \in 1 .. Len(s) :
        /\ s[i] = 195 => (i < Len(s) /\ s[i + 1] = 182)
        /\ s[i] = 182 => (i > 1 /\ s[i - 1] = 195)

\* The strings of n bytes.
StringsOfLen(n) == {s \in [1 .. n -> StrBytes] : IsUtf8(s)}

(***************************************************************************)
(* ColorCode::new : (background as u8) << 4 | (foreground as u8)           *)
(***************************************************************************)
RECURSIVE BitOr(_, _)
BitOr(a, b) ==
    IF a = 0 THEN b
    ELSE IF b = 0 THEN a
    ELSE (IF (a % 2 = 1) \/ (b % 2 = 1) THEN 1 ELSE 0) + 2 * BitOr(a \div 2, b \div 2)

\* Variant of ColorCode::new with the two colours in each other's place.
ColorCode_new_swapped(foreground, background) ==
    BitOr((foreground * 16) % 256, background)

ColorCode_new(foreground, background) ==
    BitOr((background * 16) % 256, foreground)

ScreenChar(byte, color) == [ascii_character |-> byte, color_code |-> color]

VARIABLES
    column_position,  \* Writer.column_position
    color_code,       \* Writer.color_code
    chars,            \* Writer.buffer.chars : row -> col -> ScreenChar
    index_panic,      \* TRUE once an array index was out of bounds
    last,             \* the operation that produced this state, with its argument
    calls,            \* what that operation called: new_line count, write_byte arguments
    nbytes,           \* bytes issued so far (bounded by MaxBytes)
    lock,             \* the flag of the spin::Mutex around WRITER
    pc,               \* where each path of control stands in _print
    args,             \* per path, the pieces of fmt::Arguments still to be formatted
    cpu,              \* the path that runs: "start", or "panic" once a panic was raised
    ncalls,           \* _print calls made by the normal path (bounded by MaxCalls)
    job,              \* where write_string / write_byte / new_line stand when run step by step
    hist,             \* the bottom rows the line transitions started from, most recent first
    harness,          \* the test run: the tests, the position in test_runner, the exit port
    color_in          \* the arguments of the ColorCode::new that made color_code

\* The Writer, and beside it what a step of the Writer leaves alone.
writer_vars == <<column_position, color_code, chars, index_panic, last, calls, nbytes,
                 job, hist, harness, color_in>>

print_vars == <<lock, pc, args, cpu, ncalls>>

vars == <<column_position, color_code, chars, index_panic, last, calls, nbytes,
          lock, pc, args, cpu, ncalls, job, hist, harness, color_in>>

(***************************************************************************)
(* The Writer as a value: the three fields of the struct, plus a record of *)
(* the calls made while an operation runs (new_lines: calls of new_line,   *)
(* bytes: the arguments of write_byte, writes: volatile cell writes) and   *)
(* whether an index went out of bounds.                                    *)
(***************************************************************************)
Self ==
    [column_position |-> column_position,
     color_code |-> color_code,
     chars |-> chars,
     new_lines |-> 0,
     bytes |-> <<>>,
     writes |-> 0,
     index_panic |-> index_panic]

\* Variant of WriteCell with the two indices swapped.
WriteCell_swapped(w, row, col, c) ==
    IF col \in Rows /\ row \in Cols
    THEN [w EXCEPT !.chars[col][row] = c, !.writes = @ + 1]
    ELSE [w EXCEPT !.index_panic = TRUE]

\* self.buffer.chars[row][col].write(c), with Rust's bounds check.
WriteCell(w, row, col, c) ==
    IF row \in Rows /\ col \in Cols
    THEN [w EXCEPT !.chars[row][col] = c, !.writes = @ + 1]
    ELSE [w EXCEPT !.index_panic = TRUE]

\* Variant of clear_row that blanks with the default attribute (light gray on
\* black) and leaves it as the writer's colour.
clear_row_resets_color(w, row) ==
    LET blank == ScreenChar(SPACE, LightGray)
    IN  IF row \in Rows
        THEN [w EXCEPT !.chars[row] = [col \in Cols |-> blank],
                       !.color_code = LightGray,
                       !.writes = @ + Cardinality(Cols)]
        ELSE [w EXCEPT !.index_panic = TRUE]

\* Variant of clear_row that writes nothing.
clear_row_skipped(w, row) ==
    IF row \in Rows THEN w ELSE [w EXCEPT !.index_panic = TRUE]

\* for col in 0..BUFFER_WIDTH { self.buffer.chars[row][col].write(blank) }
clear_row(w, row) ==
    LET blank == ScreenChar(SPACE, w.color_code)
    IN  IF row \in Rows
        THEN [w EXCEPT !.chars[row] = [col \in Cols |-> blank],
                       !.writes = @ + Cardinality(Cols)]
        ELSE [w EXCEPT !.index_panic = TRUE]

\* Variant of CopyRowUp that keeps the character read but stores it with the
\* writer's current color_code.
CopyRowUp_recolor(w, row) ==
    IF row \in Rows /\ (row - 1) \in Rows
    THEN [w EXCEPT !.chars[row - 1] =
                       [col \in Cols |->
                           ScreenChar(w.chars[row][col].ascii_character, w.color_code)],
                   !.writes = @ + Cardinality(Cols)]
    ELSE [w EXCEPT !.index_panic = TRUE]

\* The inner loop of new_line for one row: every cell of `row` is read and
\* written to the same column of row - 1.
CopyRowUp(w, row) ==
    IF row \in Rows /\ (row - 1) \in Rows
    THEN [w EXCEPT !.chars[row - 1] = [col \in Cols |-> w.chars[row][col]],
                   !.writes = @ + Cardinality(Cols)]
    ELSE [w EXCEPT !.index_panic = TRUE]

\* Variant of ShiftFrom that walks the rows in decreasing order, so a row is
\* overwritten before it is read.
RECURSIVE ShiftDownFrom(_, _)
ShiftDownFrom(w, row) ==
    IF row >= BUFFER_HEIGHT THEN w
    ELSE CopyRowUp(ShiftDownFrom(w, row + 1), row)

\* The outer loop of new_line: for row in 1..BUFFER_HEIGHT, in increasing order.
RECURSIVE ShiftFrom(_, _)
ShiftFrom(w, row) ==
    IF row >= BUFFER_HEIGHT THEN w
    ELSE ShiftFrom(CopyRowUp(w, row), row + 1)

new_line(w) ==
    LET shifted == ShiftFrom(w, 1)
        cleared == clear_row(shifted, BUFFER_HEIGHT - 1)
    IN  [cleared EXCEPT !.column_position = 0, !.new_lines = @ + 1]

\* Variant of write_byte whose wrap test is > instead of >=.
write_byte_wrap_gt(w, byte) ==
    LET called == [w EXCEPT !.bytes = Append(@, byte)]
    IN  IF byte = NEWLINE THEN new_line(called)
        ELSE LET w1 == IF called.column_position > BUFFER_WIDTH
                       THEN new_line(called) ELSE called
                 w2 == WriteCell(w1, BUFFER_HEIGHT - 1, w1.column_position,
                                 ScreenChar(byte, w1.color_code))
             IN  [w2 EXCEPT !.column_position = @ + 1]

\* Variant of write_byte that wraps as soon as the row is full, after the
\* byte is placed, instead of before the next byte.
write_byte_eager_wrap(w, byte) ==
    LET called == [w EXCEPT !.bytes = Append(@, byte)]
    IN  IF byte = NEWLINE THEN new_line(called)
        ELSE LET w2 == WriteCell(called, BUFFER_HEIGHT - 1, called.column_position,
                                 ScreenChar(byte, called.color_code))
                 w3 == [w2 EXCEPT !.column_position = @ + 1]
             IN  IF w3.column_position >= BUFFER_WIDTH THEN new_line(w3) ELSE w3

\* Variant of write_byte without the newline arm: the newline byte is
\* placed in a cell like any other byte.
write_byte_newline_stored(w, byte) ==
    LET called == [w EXCEPT !.bytes = Append(@, byte)]
        w1 == IF called.column_position >= BUFFER_WIDTH
              THEN new_line(called) ELSE called
        w2 == WriteCell(w1, BUFFER_HEIGHT - 1, w1.column_position,
                        ScreenChar(byte, w1.color_code))
    IN  [w2 EXCEPT !.column_position = @ + 1]

write_byte(w, byte) ==
    LET called == [w EXCEPT !.bytes = Append(@, byte)]
    IN  IF byte = NEWLINE THEN new_line(called)
        ELSE LET w1 == IF called.column_position >= BUFFER_WIDTH
                       THEN new_line(called) ELSE called
                 row == BUFFER_HEIGHT - 1
                 col == w1.column_position
                 w2 == WriteCell(w1, row, col, ScreenChar(byte, w1.color_code))
             IN  [w2 EXCEPT !.column_position = @ + 1]

\* Variant of Forwarded that hands every byte on unchanged.
Forwarded_unchanged(byte) == byte

\* The match of write_string: which byte is handed to write_byte.
Forwarded(byte) ==
    IF (byte >= PRINTABLE_LO /\ byte <= PRINTABLE_HI) \/ byte = NEWLINE
    THEN byte ELSE PLACEHOLDER

\* Variant of write_string that works per character instead of per byte: the
\* continuation bytes (0x80 .. 0xBF) of a multi-byte character are skipped.
RECURSIVE write_string_per_char(_, _)
write_string_per_char(w, s) ==
    IF s = <<>> THEN w
    ELSE IF Head(s) >= 128 /\ Head(s) <= 191 THEN write_string_per_char(w, Tail(s))
    ELSE write_string_per_char(write_byte(w, Forwarded(Head(s))), Tail(s))

\* Variant of write_string that hands the bytes on from the last to the first.
RECURSIVE write_string_reversed(_, _)
write_string_reversed(w, s) ==
    IF s = <<>> THEN w
    ELSE write_byte(write_string_reversed(w, Tail(s)), Forwarded(Head(s)))

RECURSIVE write_string(_, _)
write_string(w, s) ==
    IF s = <<>> THEN w
    ELSE write_string(write_byte(w, Forwarded(Head(s))), Tail(s))

\* Variant of write_str that reports a string holding a byte outside the
\* printable range as an error.
write_str_strict(w, s) ==
    [w |-> write_string(w, s),
     result |-> IF \E i \in 1 .. Len(s) : s[i] < PRINTABLE_LO \/ s[i] > PRINTABLE_HI
                THEN "Err" ELSE "Ok"]

\* fmt::Write::write_str: write_string, then Ok(()).
write_str(w, s) == [w |-> write_string(w, s), result |-> "Ok"]

\* Write::write_fmt over the pieces of text of fmt::Arguments: one write_str
\* per piece, in order (every write_str returns Ok, so none is skipped).
RECURSIVE write_fmt(_, _)
write_fmt(w, pieces) ==
    IF pieces = <<>> THEN w
    ELSE write_fmt(write_str(w, Head(pieces)).w, Tail(pieces))

\* print!(..) : _print(format_args!(..)).
print_macro(w, pieces) == write_fmt(w, pieces)

\* println!(..) : print!("{}\n", format_args!(..)).
println_macro(w, pieces) == print_macro(w, Append(pieces, <<NEWLINE>>))

(***************************************************************************)
(* Initial state: the WRITER of the lazy_static, over a buffer that holds  *)
(* whatever the firmware left on screen.                                   *)
(***************************************************************************)
BlankGrid == [r \in Rows |-> [c \in Cols |-> ScreenChar(SPACE, LightGray)]]

\* Every cell different: character '0' + index, light gray on black.
StaleGrid ==
    [r \in Rows |-> [c \in Cols |-> ScreenChar(48 + r * BUFFER_WIDTH + c, LightGray)]]

\* A screen that was cleared with the attribute the WRITER uses.
ClearedGrid ==
    [r \in Rows |-> [c \in Cols |-> ScreenChar(SPACE, ColorCode_new(Yellow, Black))]]

InitGrids == {BlankGrid, StaleGrid, ClearedGrid}

\* No operation of the Writer is under way.
IdleJob ==
    [phase |-> "idle", s |-> <<>>, byte |-> 0, row |-> 0, col |-> 0,
     character |-> ScreenChar(0, 0), pre |-> BlankGrid, copies |-> 0, blanks |-> 0,
     then |-> "none"]

\* No test run: the kernel was built without cfg(test).
NoHarness == [pc |-> "off", tests |-> <<>>, next |-> 1, port |-> <<>>]

Init ==
    /\ column_position = 0
    /\ color_in = [foreground |-> Yellow, background |-> Black]
    /\ color_code = ColorCode_new(color_in.foreground, color_in.background)
    /\ chars \in InitGrids
    /\ index_panic = FALSE
    /\ last = [op |-> "init", byte |-> 0, s |-> <<>>, col |-> 0]
    /\ calls = [new_lines |-> 0, bytes |-> <<>>, writes |-> 0]
    /\ nbytes = 0
    /\ lock = FALSE
    /\ pc = [start |-> "idle", panic |-> "off"]
    /\ args = [start |-> <<>>, panic |-> <<>>]
    /\ cpu = "start"
    /\ ncalls = 0
    /\ job = IdleJob
    /\ hist = <<>>
    /\ harness = NoHarness

\* The state after an operation returned Writer value w.
Becomes(w, op, byte, s, cost) ==
    /\ ~index_panic
    /\ nbytes + cost <= MaxBytes
    /\ column_position' = w.column_position
    /\ color_code' = w.color_code
    /\ chars' = w.chars
    /\ index_panic' = w.index_panic
    /\ last' = [op |-> op, byte |-> byte, s |-> s, col |-> column_position]
    /\ calls' = [new_lines |-> w.new_lines, bytes |-> w.bytes, writes |-> w.writes]
    /\ nbytes' = nbytes + cost
    /\ UNCHANGED <<job, hist, harness, color_in>>

WriteByte ==
    /\ \E b \in Bytes :
           Becomes(write_byte(Self, b), "write_byte", b, <<>>, 1)
    /\ UNCHANGED print_vars

WriteString ==
    /\ \E n \in 0 .. MaxLen :
           /\ nbytes + n <= MaxBytes
           /\ \E s \in StringsOfLen(n) :
                  Becomes(write_string(Self, s), "write_string", 0, s, n)
    /\ UNCHANGED print_vars

NewLine ==
    /\ Becomes(new_line(Self), "new_line", 0, <<>>, 1)
    /\ UNCHANGED print_vars

Next == WriteByte \/ WriteString \/ NewLine

Spec == Init /\ [][Next]_vars

(***************************************************************************)
(* A Writer whose attribute ColorCode::new made from any pair of colours,  *)
(* over a blank or stale grid, and its first operations.                   *)
(***************************************************************************)
InitColor ==
    /\ column_position = 0
    /\ color_in \in [foreground : Colors, background : Colors]
    /\ color_code = ColorCode_new(color_in.foreground, color_in.background)
    /\ chars \in InitGrids
    /\ index_panic = FALSE
    /\ last = [op |-> "init", byte |-> 0, s |-> <<>>, col |-> 0]
    /\ calls = [new_lines |-> 0, bytes |-> <<>>, writes |-> 0]
    /\ nbytes = 0
    /\ lock = FALSE
    /\ pc = [start |-> "idle", panic |-> "off"]
    /\ args = [start |-> <<>>, panic |-> <<>>]
    /\ cpu = "start"
    /\ ncalls = 0
    /\ job = IdleJob
    /\ hist = <<>>
    /\ harness = NoHarness

ColorWriteByte == nbytes < MaxColorOps /\ WriteByte

ColorNewLine == nbytes < MaxColorOps /\ NewLine

NextColor == ColorWriteByte \/ ColorNewLine

SpecColor == InitColor /\ [][NextColor]_vars

(***************************************************************************)
(* The print path: _print locks WRITER, formats the arguments piece by     *)
(* piece through write_str, unwraps the result and drops the guard.  There *)
(* is one thread of control; a panic hands it to the panic handler, which  *)
(* prints and then loops for ever, so the interrupted path never resumes   *)
(* (nothing unwinds: the guard it held is never dropped).                  *)
(***************************************************************************)
Paths == {"start", "panic"}

\* A piece of fmt::Arguments: text handed to write_str, an argument whose
\* fmt panics, or an argument whose fmt returns Err.
Str(s) == [k |-> "str", s |-> s]

Panics == [k |-> "panic", s |-> <<>>]

Fails == [k |-> "err", s |-> <<>>]

\* Argument lists of the calls: println!("Hello World{}", "!") (two pieces
\* and the newline), print!("trivial assertion... "), println!("[ok]"), and
\* calls with an argument that panics or fails.
PrintArgs ==
    {<<Str(<<120, 121>>), Str(<<120>>), Str(<<NEWLINE>>)>>,
     <<Str(<<121>>)>>,
     <<Str(<<120, 121>>), Str(<<NEWLINE>>)>>,
     <<Str(<<120>>), Panics, Str(<<NEWLINE>>)>>,
     <<Str(<<121>>), Fails, Str(<<NEWLINE>>)>>}

\* println!("{}", info) in the panic handler.
PanicArgs == <<Str(<<121, 120>>), Str(<<NEWLINE>>)>>

\* Variant of try_lock that does not look at the flag.
try_lock_unchecked(flag) == TRUE

\* spin::Mutex::lock: the compare-exchange of the flag from false to true
\* succeeds only on a free lock; otherwise the caller spins.
try_lock(flag) == flag = FALSE

\* The panic handler takes over; the path that panicked stays where it is.
RaisePanic ==
    /\ cpu' = "panic"
    /\ pc' = [pc EXCEPT !["panic"] = "lock"]
    /\ args' = [args EXCEPT !["panic"] = PanicArgs]

\* print!/println! called on the normal path: _print(format_args!(..)).
Call ==
    /\ cpu = "start"
    /\ pc["start"] = "idle"
    /\ ncalls < MaxCalls
    /\ \E a \in PrintArgs : args' = [args EXCEPT !["start"] = a]
    /\ pc' = [pc EXCEPT !["start"] = "lock"]
    /\ ncalls' = ncalls + 1
    /\ UNCHANGED <<writer_vars, lock, cpu>>

\* WRITER.lock() returns the guard.
Acquire(p) ==
    /\ cpu = p
    /\ pc[p] = "lock"
    /\ try_lock(lock)
    /\ lock' = TRUE
    /\ pc' = [pc EXCEPT ![p] = "fmt"]
    /\ UNCHANGED <<writer_vars, args, cpu, ncalls>>

\* write_fmt hands the next piece of text to write_str and goes on to the
\* next piece on Ok; an Err is returned to unwrap.
WriteStr(p) ==
    /\ cpu = p
    /\ pc[p] = "fmt"
    /\ args[p] # <<>>
    /\ Head(args[p]).k = "str"
    /\ LET r == write_str(Self, Head(args[p]).s)
       IN  /\ Becomes(r.w, "write_string", 0, Head(args[p]).s, 0)
           /\ pc' = IF r.result = "Ok" THEN pc ELSE [pc EXCEPT ![p] = "unwrap_err"]
    /\ args' = [args EXCEPT ![p] = Tail(@)]
    /\ UNCHANGED <<lock, cpu, ncalls>>

\* An argument's fmt panics while the guard is held.
FmtPanics(p) ==
    /\ cpu = p
    /\ p = "start"
    /\ pc[p] = "fmt"
    /\ args[p] # <<>>
    /\ Head(args[p]).k = "panic"
    /\ RaisePanic
    /\ UNCHANGED <<writer_vars, lock, ncalls>>

\* An argument's fmt returns Err: write_fmt returns it to unwrap.
FmtFails(p) ==
    /\ cpu = p
    /\ pc[p] = "fmt"
    /\ args[p] # <<>>
    /\ Head(args[p]).k = "err"
    /\ pc' = [pc EXCEPT ![p] = "unwrap_err"]
    /\ UNCHANGED <<writer_vars, lock, args, cpu, ncalls>>

\* unwrap() of the Err panics; the guard, a temporary of the statement, is
\* still alive.
UnwrapPanics(p) ==
    /\ cpu = p
    /\ p = "start"
    /\ pc[p] = "unwrap_err"
    /\ RaisePanic
    /\ UNCHANGED <<writer_vars, lock, ncalls>>

\* Variant of Release that drops the guard at any point of write_fmt.
Release_early(p) ==
    /\ cpu = p
    /\ pc[p] = "fmt"
    /\ lock' = FALSE
    /\ pc' = [pc EXCEPT ![p] = IF p = "panic" THEN "halt" ELSE "idle"]
    /\ UNCHANGED <<writer_vars, args, cpu, ncalls>>

\* write_fmt returned Ok: unwrap passes and the guard is dropped at the end
\* of the statement.  _start goes on; the panic handler enters loop {}.
Release(p) ==
    /\ cpu = p
    /\ pc[p] = "fmt"
    /\ args[p] = <<>>
    /\ lock' = FALSE
    /\ pc' = [pc EXCEPT ![p] = IF p = "panic" THEN "halt" ELSE "idle"]
    /\ UNCHANGED <<writer_vars, args, cpu, ncalls>>

\* A panic raised outside _print (a failed assert_eq! in a test).
PanicOutside ==
    /\ cpu = "start"
    /\ pc["start"] = "idle"
    /\ RaisePanic
    /\ UNCHANGED <<writer_vars, lock, ncalls>>

PrintNext ==
    \/ Call
    \/ PanicOutside
    \/ \E p \in Paths :
          \/ Acquire(p)
          \/ WriteStr(p)
          \/ FmtPanics(p)
          \/ FmtFails(p)
          \/ UnwrapPanics(p)
          \/ Release(p)

SpecPrint == Init /\ [][PrintNext]_vars

(***************************************************************************)
(* The test build (cfg(test)): _start prints, test_main hands the list of  *)
(* tests to test_runner, each test prints its name, asserts and prints     *)
(* "[ok]", and test_runner ends with exit_qemu(Success).  A test is "pass" *)
(* or "fail" by what its assert_eq! does; a failed assertion panics.       *)
(* harness.port is the sequence of codes written to port 0xf4.             *)
(***************************************************************************)
TestLists == UNION {[1 .. n -> {"pass", "fail"}] : n \in 0 .. MaxTests}

\* println!("Hello World{}", "!")
HelloArgs == <<Str(<<120, 121>>), Str(<<120>>), Str(<<NEWLINE>>)>>

\* println!("Running {} tests", tests.len())
RunningArgs == <<Str(<<121>>), Str(<<120>>), Str(<<121>>), Str(<<NEWLINE>>)>>

\* print!("trivial assertion... ")
TestNameArgs == <<Str(<<120, 121>>)>>

\* println!("[ok]")
OkArgs == <<Str(<<121>>), Str(<<NEWLINE>>)>>

InitTest ==
    /\ column_position = 0
    /\ color_in = [foreground |-> Yellow, background |-> Black]
    /\ color_code = ColorCode_new(color_in.foreground, color_in.background)
    /\ chars \in InitGrids
    /\ index_panic = FALSE
    /\ last = [op |-> "init", byte |-> 0, s |-> <<>>, col |-> 0]
    /\ calls = [new_lines |-> 0, bytes |-> <<>>, writes |-> 0]
    /\ nbytes = 0
    /\ lock = FALSE
    /\ pc = [start |-> "idle", panic |-> "off"]
    /\ args = [start |-> <<>>, panic |-> <<>>]
    /\ cpu = "start"
    /\ ncalls = 0
    /\ job = IdleJob
    /\ hist = <<>>
    /\ \E tests \in TestLists :
           harness = [pc |-> "hello", tests |-> tests, next |-> 1, port |-> <<>>]

\* The normal path, between two calls, is at position at of the test build.
At(at) == cpu = "start" /\ pc["start"] = "idle" /\ harness.pc = at

\* A print!/println! of the test build: _print is called with a.
HarnessPrint(a, h) ==
    /\ args' = [args EXCEPT !["start"] = a]
    /\ pc' = [pc EXCEPT !["start"] = "lock"]
    /\ harness' = h
    /\ UNCHANGED <<column_position, color_code, chars, index_panic, last, calls, nbytes,
                   job, hist, color_in, lock, cpu, ncalls>>

PrintHello ==
    At("hello") /\ HarnessPrint(HelloArgs, [harness EXCEPT !.pc = "test_main"])

PrintRunning ==
    At("test_main") /\ HarnessPrint(RunningArgs, [harness EXCEPT !.pc = "for"])

\* for test in tests
ForTest ==
    /\ At("for")
    /\ harness' = [harness EXCEPT
                      !.pc = IF harness.next <= Len(harness.tests) THEN "test" ELSE "exit"]
    /\ UNCHANGED <<column_position, color_code, chars, index_panic, last, calls, nbytes,
                   job, hist, color_in, print_vars>>

PrintTestName ==
    At("test") /\ HarnessPrint(TestNameArgs, [harness EXCEPT !.pc = "assert"])

\* assert_eq!(..): goes on, or panics.
AssertEq ==
    /\ At("assert")
    /\ IF harness.tests[harness.next] = "pass"
       THEN /\ harness' = [harness EXCEPT !.pc = "ok"]
            /\ UNCHANGED <<pc, args, cpu>>
       ELSE /\ RaisePanic
            /\ harness' = harness
    /\ UNCHANGED <<column_position, color_code, chars, index_panic, last, calls, nbytes,
                   job, hist, color_in, lock, ncalls>>

PrintOk ==
    At("ok") /\ HarnessPrint(OkArgs, [harness EXCEPT !.pc = "for", !.next = @ + 1])

\* exit_qemu(QemuExitCode::Success): the code is written to the port, the
\* call returns and _start enters loop {}.
ExitQemu ==
    /\ At("exit")
    /\ harness' = [harness EXCEPT !.pc = "loop", !.port = Append(@, Success)]
    /\ UNCHANGED <<column_position, color_code, chars, index_panic, last, calls, nbytes,
                   job, hist, color_in, print_vars>>

TestNext ==
    \/ PrintHello
    \/ PrintRunning
    \/ ForTest
    \/ PrintTestName
    \/ AssertEq
    \/ PrintOk
    \/ ExitQemu
    \/ \E p \in Paths :
          \/ Acquire(p)
          \/ WriteStr(p)
          \/ Release(p)

SpecTest == InitTest /\ [][TestNext]_vars

(***************************************************************************)
(* The print path step by step: write_str runs write_string byte by byte,  *)
(* write_byte cell by cell, and new_line as the reads and writes of its    *)
(* loops.  job holds the position: the bytes of the string still to write  *)
(* (s), the byte in hand, the loop indices (row, col), the ScreenChar read *)
(* (character), the grid the line transition started from (pre), and the   *)
(* cell copies and blank writes the transition has made.                   *)
(***************************************************************************)
FIRST_COPY_ROW == 1

\* Variant of needs_wrap that lets the column reach one past the width.
needs_wrap_gt(col) == col > BUFFER_WIDTH

\* if self.column_position >= BUFFER_WIDTH
needs_wrap(col) == col >= BUFFER_WIDTH

\* Variant of place_row: the row above the bottom row.
place_row_above == BUFFER_HEIGHT - 2

\* let row = BUFFER_HEIGHT - 1
place_row == BUFFER_HEIGHT - 1

\* Variant of dest_row that copies a row onto the row below it.
dest_row_below(row) == row + 1

\* self.buffer.chars[row - 1][col]
dest_row(row) == row - 1

\* Variant of rows_done that leaves the loop one row early.
rows_done_early(row) == row >= BUFFER_HEIGHT - 1

\* End of the range of for row in 1..BUFFER_HEIGHT
rows_done(row) == row >= BUFFER_HEIGHT

\* End of the range of for col in 0..BUFFER_WIDTH
cols_done(col) == col >= BUFFER_WIDTH

\* The path p runs inside write_fmt, guard in hand.
Running(p) == cpu = p /\ pc[p] = "fmt" /\ ~index_panic

\* write_fmt calls write_str on the next piece of text.
StrBegin(p) ==
    /\ Running(p)
    /\ job.phase = "idle"
    /\ args[p] # <<>>
    /\ Head(args[p]).k = "str"
    /\ job' = [IdleJob EXCEPT !.phase = "byte", !.s = Head(args[p]).s]
    /\ UNCHANGED <<column_position, color_code, chars, index_panic, last, calls, nbytes,
                   hist, harness, color_in, print_vars>>

\* write_string takes the next byte and calls write_byte, which either
\* enters new_line (newline byte, or full line) or goes to the cell write.
ByteCall(p) ==
    /\ Running(p)
    /\ job.phase = "byte"
    /\ job.s # <<>>
    /\ LET b == Forwarded(Head(job.s))
       IN  IF b = NEWLINE \/ needs_wrap(column_position)
           THEN /\ job' = [job EXCEPT
                              !.byte = b,
                              !.phase = IF rows_done(FIRST_COPY_ROW) THEN "clear" ELSE "read",
                              !.row = IF rows_done(FIRST_COPY_ROW)
                                      THEN BUFFER_HEIGHT - 1 ELSE FIRST_COPY_ROW,
                              !.col = 0,
                              !.pre = chars,
                              !.copies = 0,
                              !.blanks = 0,
                              !.then = IF b = NEWLINE THEN "next" ELSE "place"]
                /\ hist' = LET h == <<chars[BUFFER_HEIGHT - 1]>> \o hist
                           IN  IF Len(h) > BUFFER_HEIGHT - 1
                               THEN SubSeq(h, 1, BUFFER_HEIGHT - 1) ELSE h
           ELSE /\ job' = [job EXCEPT !.byte = b, !.phase = "place"]
                /\ hist' = hist
    /\ UNCHANGED <<column_position, color_code, chars, index_panic, last, calls, nbytes,
                   harness, color_in, print_vars>>

\* let character = self.buffer.chars[row][col].read();
ReadCell(p) ==
    /\ Running(p)
    /\ job.phase = "read"
    /\ IF job.row \in Rows /\ job.col \in Cols
       THEN /\ job' = [job EXCEPT !.character = chars[job.row][job.col], !.phase = "write"]
            /\ index_panic' = index_panic
       ELSE /\ job' = job
            /\ index_panic' = TRUE
    /\ UNCHANGED <<column_position, color_code, chars, last, calls, nbytes,
                   hist, harness, color_in, print_vars>>

\* self.buffer.chars[row - 1][col].write(character); then the loops advance.
WriteBack(p) ==
    /\ Running(p)
    /\ job.phase = "write"
    /\ LET w == WriteCell(Self, dest_row(job.row), job.col, job.character)
       IN  /\ chars' = w.chars
           /\ index_panic' = w.index_panic
    /\ job' = IF ~cols_done(job.col + 1)
              THEN [job EXCEPT !.col = @ + 1, !.phase = "read", !.copies = @ + 1]
              ELSE IF ~rows_done(job.row + 1)
              THEN [job EXCEPT !.row = @ + 1, !.col = 0, !.phase = "read",
                               !.copies = @ + 1]
              ELSE [job EXCEPT !.row = BUFFER_HEIGHT - 1, !.col = 0, !.phase = "clear",
                               !.copies = @ + 1]
    /\ UNCHANGED <<column_position, color_code, last, calls, nbytes,
                   hist, harness, color_in, print_vars>>

\* clear_row(BUFFER_HEIGHT - 1): self.buffer.chars[row][col].write(blank);
ClearCell(p) ==
    /\ Running(p)
    /\ job.phase = "clear"
    /\ LET w == WriteCell(Self, job.row, job.col, ScreenChar(SPACE, color_code))
       IN  /\ chars' = w.chars
           /\ index_panic' = w.index_panic
    /\ job' = IF ~cols_done(job.col + 1)
              THEN [job EXCEPT !.col = @ + 1, !.blanks = @ + 1]
              ELSE [job EXCEPT !.phase = "reset", !.blanks = @ + 1]
    /\ UNCHANGED <<column_position, color_code, last, calls, nbytes,
                   hist, harness, color_in, print_vars>>

\* self.column_position = 0; new_line returns: to the cell write of the
\* byte that found the line full, or to the next byte after a newline.
ResetColumn(p) ==
    /\ Running(p)
    /\ job.phase = "reset"
    /\ column_position' = 0
    /\ job' = IF job.then = "place"
              THEN [job EXCEPT !.phase = "place"]
              ELSE [job EXCEPT !.phase = "byte", !.s = Tail(@)]
    /\ UNCHANGED <<color_code, chars, index_panic, last, calls, nbytes,
                   hist, harness, color_in, print_vars>>

\* self.buffer.chars[row][col].write(ScreenChar {..}); self.column_position += 1;
PlaceByte(p) ==
    /\ Running(p)
    /\ job.phase = "place"
    /\ LET w == WriteCell(Self, place_row, column_position,
                          ScreenChar(job.byte, color_code))
       IN  /\ chars' = w.chars
           /\ index_panic' = w.index_panic
    /\ column_position' = column_position + 1
    /\ job' = [job EXCEPT !.phase = "byte", !.s = Tail(@)]
    /\ UNCHANGED <<color_code, last, calls, nbytes, hist, harness, color_in, print_vars>>

\* The bytes are through: write_str returns Ok(()) and write_fmt goes on.
StrEnd(p) ==
    /\ Running(p)
    /\ job.phase = "byte"
    /\ job.s = <<>>
    /\ job' = IdleJob
    /\ args' = [args EXCEPT ![p] = Tail(@)]
    /\ UNCHANGED <<column_position, color_code, chars, index_panic, last, calls, nbytes,
                   hist, harness, color_in, lock, pc, cpu, ncalls>>

\* The steps the processor takes on its own, once a call or a panic is made.
Progress ==
    \E p \in Paths :
        \/ Acquire(p)
        \/ StrBegin(p)
        \/ ByteCall(p)
        \/ ReadCell(p)
        \/ WriteBack(p)
        \/ ClearCell(p)
        \/ ResetColumn(p)
        \/ PlaceByte(p)
        \/ StrEnd(p)
        \/ FmtPanics(p)
        \/ FmtFails(p)
        \/ UnwrapPanics(p)
        \/ Release(p)

StepsNext == Call \/ PanicOutside \/ Progress

SpecSteps == Init /\ [][StepsNext]_vars

\* One processor, no interrupt: the path in control always takes its next step.
FairSpecSteps == SpecSteps /\ WF_vars(Progress)

(***************************************************************************)
(* Vocabulary of the properties.                                           *)
(***************************************************************************)
BottomRow == BUFFER_HEIGHT - 1

IsPrintable(b) == b >= 32 /\ b <= 126

NoNewlineIn(s) == \A i \in 1 .. Len(s) : s[i] # 10

\* A blank cell: the space character with attribute a.
Blank(a) == [ascii_character |-> 32, color_code |-> a]

BlankRow(a) == [c \in Cols |-> Blank(a)]

\* Grid g moved up by one row, with a blank bottom row of attribute a.
Scrolled(g, a) ==
    [r \in Rows |-> IF r < BottomRow THEN g[r + 1] ELSE BlankRow(a)]

\* The last operation was write_byte of a byte other than newline.
PlainByteWritten == last.op = "write_byte" /\ last.byte # 10

(***************************************************************************)
(* C1: column_position stays within 0 .. BUFFER_WIDTH in every reachable   *)
(* state, no index goes out of bounds, and write_byte's wrap test          *)
(* (column_position >= BUFFER_WIDTH) fires, calling new_line, exactly when *)
(* column_position was equal to BUFFER_WIDTH.                              *)
(***************************************************************************)
C1_ColumnInRange ==
    /\ column_position \in 0 .. BUFFER_WIDTH
    /\ ~index_panic
    /\ PlainByteWritten =>
          /\ last.col \in 0 .. BUFFER_WIDTH
          /\ (calls.new_lines = 1) <=> (last.col = BUFFER_WIDTH)
          /\ calls.new_lines \in {0, 1}

\* A byte was written at a full row: the wrap test fired.
C1_Witness ==
    /\ PlainByteWritten
    /\ last.col = BUFFER_WIDTH
    /\ calls.new_lines = 1
    /\ column_position = 1

(***************************************************************************)
(* C2: from column 0, BUFFER_WIDTH bytes other than newline cause no line  *)
(* transition and leave column_position = BUFFER_WIDTH; the next byte y    *)
(* causes exactly one line transition before it is placed: row height-2    *)
(* then holds the former bottom row, the bottom row is blank but for y in  *)
(* column 0, and column_position = 1.                                      *)
(***************************************************************************)
C2_WrapBoundary ==
    [][/\ (/\ last'.op = "write_string"
            /\ column_position = 0
            /\ Len(last'.s) = BUFFER_WIDTH
            /\ NoNewlineIn(last'.s))
          => (calls'.new_lines = 0 /\ column_position' = BUFFER_WIDTH)
       /\ (/\ last'.op = "write_byte"
            /\ last'.byte # 10
            /\ column_position < BUFFER_WIDTH)
          => (calls'.new_lines = 0 /\ column_position' = column_position + 1)
       /\ (/\ last'.op = "write_byte"
            /\ last'.byte # 10
            /\ column_position = BUFFER_WIDTH)
          => /\ calls'.new_lines = 1
             /\ chars'[BottomRow - 1] = chars[BottomRow]
             /\ chars'[BottomRow] =
                   [c \in Cols |-> IF c = 0
                                   THEN [ascii_character |-> last'.byte,
                                         color_code |-> color_code]
                                   ELSE Blank(color_code)]
             /\ column_position' = 1
       /\ (/\ last'.op = "write_string"
            /\ column_position = 0
            /\ Len(last'.s) = BUFFER_WIDTH + 1
            /\ NoNewlineIn(last'.s))
          => /\ calls'.new_lines = 1
             /\ column_position' = 1
             /\ \A c \in Cols :
                   chars'[BottomRow - 1][c].ascii_character =
                       (IF IsPrintable(last'.s[c + 1]) THEN last'.s[c + 1] ELSE 254)
             /\ \A c \in Cols \ {0} : chars'[BottomRow][c] = Blank(color_code)
      ]_vars

\* The row was filled with 'x' from column 0 and then 'y' was written.
C2_Witness ==
    /\ last.op = "write_byte"
    /\ last.byte = 121
    /\ last.col = BUFFER_WIDTH
    /\ calls.new_lines = 1
    /\ column_position = 1
    /\ \A c \in Cols : chars[BottomRow - 1][c].ascii_character = 120
    /\ chars[BottomRow][0].ascii_character = 121

(***************************************************************************)
(* C3: after new_line, row r-1 holds what row r held before, for every r   *)
(* in 1 .. height-1 (what row 0 held is gone), every cell of the bottom    *)
(* row is a space with the writer's attribute, and column_position = 0.    *)
(***************************************************************************)
C3_ScrollLaw ==
    [][last'.op = "new_line"
          => /\ \A r \in 1 .. BottomRow : chars'[r - 1] = chars[r]
             /\ \A c \in Cols : chars'[BottomRow][c] = Blank(color_code)
             /\ chars' = Scrolled(chars, color_code)
             /\ column_position' = 0
      ]_vars

\* new_line ran on a grid whose rows all differed: a written row moved up
\* over an older one.
C3_Witness ==
    /\ last.op = "new_line"
    /\ last.col > 0
    /\ chars[BottomRow - 1][0].ascii_character = 120
    /\ chars[0] # chars[BottomRow - 1]
    /\ chars[BottomRow] = BlankRow(color_code)
    /\ column_position = 0

(***************************************************************************)
(* C4 as claimed: write_byte(b), for b outside 0x20 .. 0x7E and not the    *)
(* newline, stores the placeholder 0xFE with the current attribute in the  *)
(* target cell, never b itself.                                            *)
(***************************************************************************)
C4_WriteByteSubstitutes ==
    (PlainByteWritten /\ ~IsPrintable(last.byte))
        => chars[BottomRow][column_position - 1] =
               [ascii_character |-> 254, color_code |-> color_code]

(***************************************************************************)
(* C4 amended: the substitution is made by write_string, not by            *)
(* write_byte.  write_string stores 0xFE with the current attribute for a  *)
(* byte outside 0x20 .. 0x7E other than the newline; write_byte stores the *)
(* byte it is given, whatever it is (write_byte(0x01) stores 0x01).        *)
(***************************************************************************)
C4_WriteStringSubstitutes ==
    /\ (/\ last.op = "write_string"
         /\ Len(last.s) >= 1
         /\ ~IsPrintable(last.s[Len(last.s)])
         /\ last.s[Len(last.s)] # 10)
       => chars[BottomRow][column_position - 1] =
              [ascii_character |-> 254, color_code |-> color_code]
    /\ PlainByteWritten
       => chars[BottomRow][column_position - 1] =
              [ascii_character |-> last.byte, color_code |-> color_code]

\* write_string was given the single byte 0x01 and the cell holds 0xFE.
C4_Witness ==
    /\ last.op = "write_string"
    /\ last.s = <<1>>
    /\ chars[BottomRow][last.col].ascii_character = 254
    /\ column_position = last.col + 1

(***************************************************************************)
(* C5: write_string hands write_byte one byte per input byte, in order: a  *)
(* byte in 0x20 .. 0x7E or the newline unchanged, any other byte as 0xFE   *)
(* (so the two bytes of one non-ASCII character give two placeholders);    *)
(* every cell that write_string wrote or blanked holds a character in      *)
(* 0x20 .. 0x7E or 0xFE.                                                   *)
(***************************************************************************)
C5_ByteWiseForwarding ==
    [][last'.op = "write_string"
          => /\ Len(calls'.bytes) = Len(last'.s)
             /\ \A i \in 1 .. Len(last'.s) :
                   calls'.bytes[i] =
                       (IF IsPrintable(last'.s[i]) \/ last'.s[i] = 10
                        THEN last'.s[i] ELSE 254)
             /\ \A r \in Rows, c \in Cols :
                   \/ (/\ r + calls'.new_lines \in Rows
                       /\ chars'[r][c] = chars[r + calls'.new_lines][c])
                   \/ IsPrintable(chars'[r][c].ascii_character)
                   \/ chars'[r][c].ascii_character = 254
      ]_vars

\* 'x', U+00F6 (two bytes), 'y' were written from column 0 of a row wide
\* enough: four cells, the middle two placeholders.
C5_Witness ==
    /\ last.op = "write_string"
    /\ \E i \in 1 .. (Len(last.s) - 1) : last.s[i] = 195 /\ last.s[i + 1] = 182
    /\ \E i \in 1 .. Len(last.s) : last.s[i] = 120
    /\ calls.new_lines = 0
    /\ Len(calls.bytes) = Len(last.s)
    /\ \E c \in Cols : c + 1 \in Cols
           /\ chars[BottomRow][c].ascii_character = 254
           /\ chars[BottomRow][c + 1].ascii_character = 254

(***************************************************************************)
(* C6: write_byte(newline) leaves the grid and column_position that        *)
(* new_line leaves from the same state, writes no cell for the newline     *)
(* byte, and no cell of the grid ever holds the newline byte.              *)
(***************************************************************************)
C6_NewlineEquivalence ==
    [][/\ (last'.op = "write_byte" /\ last'.byte = 10)
          => /\ chars' = new_line(Self).chars
             /\ column_position' = new_line(Self).column_position
             /\ chars' = Scrolled(chars, color_code)
             /\ calls'.new_lines = 1
             /\ calls'.writes = new_line(Self).writes
       /\ \A r \in Rows, c \in Cols : chars'[r][c].ascii_character # 10
      ]_vars

\* The newline byte was written in the middle of a line.
C6_Witness ==
    /\ last.op = "write_byte"
    /\ last.byte = 10
    /\ last.col > 0
    /\ column_position = 0
    /\ chars[BottomRow] = BlankRow(color_code)
    /\ chars[BottomRow - 1][0].ascii_character = 120

\* Path p is between WRITER.lock() and the drop of its guard.
HoldsGuard(p) == pc[p] \in {"fmt", "unwrap_err"}

(***************************************************************************)
(* C7: at most one path holds the console at any time: the normal path     *)
(* and the panic path are never both between WRITER.lock() and the drop of *)
(* the guard, and the lock flag is set exactly while one of them is.       *)
(***************************************************************************)
C7_MutualExclusion ==
    /\ Cardinality({p \in Paths : HoldsGuard(p)}) <= 1
    /\ lock <=> (\E p \in Paths : HoldsGuard(p))

\* The panic handler asks for the console while the interrupted normal path
\* still holds it, in the middle of its output.
C7_Witness ==
    /\ HoldsGuard("start")
    /\ pc["panic"] = "lock"
    /\ cpu = "panic"
    /\ lock
    /\ last.op = "write_string"

(***************************************************************************)
(* C8: a panic raised while the normal path holds the WRITER lock does not *)
(* leave the panic handler spinning for ever: whenever the handler waits   *)
(* in WRITER.lock(), the lock is free or the path that holds it is the one *)
(* running, so that it will be released.  (Only the handler runs once a    *)
(* panic was raised, so a lock held then is held for ever.)                *)
(***************************************************************************)
C8_PanicPathAcquires ==
    (pc["panic"] = "lock" /\ lock)
        => \E p \in Paths : HoldsGuard(p) /\ cpu = p

(***************************************************************************)
(* C9: write_string of n bytes, all in 0x20 .. 0x7E, at column c with      *)
(* c + n <= width puts them in order, each with the current attribute, in  *)
(* cells [height-1][c .. c+n), leaves column_position = c + n and changes  *)
(* no other cell and not the attribute; write_byte of one such byte (or of *)
(* any byte but the newline, at a column below the width) makes exactly    *)
(* one cell write.                                                         *)
(***************************************************************************)
C9_WriteFrame ==
    [][/\ (/\ last'.op = "write_string"
            /\ \A i \in 1 .. Len(last'.s) : IsPrintable(last'.s[i])
            /\ column_position + Len(last'.s) <= BUFFER_WIDTH)
          => /\ chars' =
                   [chars EXCEPT ![BottomRow] =
                       [c \in Cols |->
                           IF c >= column_position /\ c < column_position + Len(last'.s)
                           THEN [ascii_character |-> last'.s[c - column_position + 1],
                                 color_code |-> color_code]
                           ELSE chars[BottomRow][c]]]
             /\ column_position' = column_position + Len(last'.s)
             /\ color_code' = color_code
             /\ calls'.writes = Len(last'.s)
       /\ (/\ last'.op = "write_byte"
            /\ last'.byte # 10
            /\ column_position < BUFFER_WIDTH)
          => /\ chars' = [chars EXCEPT ![BottomRow][column_position] =
                             [ascii_character |-> last'.byte, color_code |-> color_code]]
             /\ column_position' = column_position + 1
             /\ color_code' = color_code
             /\ calls'.writes = 1
      ]_vars

\* "xy" was written at column 1 of a row of at least three columns.
C9_Witness ==
    /\ last.op = "write_string"
    /\ last.s = <<120, 121>>
    /\ last.col = 1
    /\ column_position = 3
    /\ chars[BottomRow][1].ascii_character = 120
    /\ chars[BottomRow][2].ascii_character = 121
    /\ calls.writes = 2

(***************************************************************************)
(* C10: a cell written or blanked by an operation carries the writer's     *)
(* attribute of that moment; every other cell keeps its stored attribute   *)
(* and character, in place or moved up by the operation's line             *)
(* transitions.  With k transitions in the operation, row r comes from     *)
(* row r + k: unchanged if that row was above the bottom row, unchanged or *)
(* written if it was the bottom row, and new if r + k is past the grid.    *)
(***************************************************************************)
C10_AttributePersistence ==
    [][\A r \in Rows, c \in Cols :
          LET from == r + calls'.new_lines
          IN  IF from < BottomRow THEN chars'[r][c] = chars[from][c]
              ELSE IF from = BottomRow
                   THEN \/ chars'[r][c] = chars[BottomRow][c]
                        \/ chars'[r][c].color_code = color_code
              ELSE chars'[r][c].color_code = color_code
      ]_vars

\* After a line transition a cell of the firmware's screen, light gray,
\* sits above a cell written in the writer's yellow.
C10_Witness ==
    /\ calls.new_lines = 1
    /\ chars[0][0].color_code = 7
    /\ chars[0][0].ascii_character # 32
    /\ chars[BottomRow - 1][0] = [ascii_character |-> 120, color_code |-> color_code]
    /\ color_code # 7

(***************************************************************************)
(* C11: write_string never fails.  From every reachable writer state and   *)
(* for every string, write_str writes without an index out of bounds and   *)
(* returns Ok; on the print path the unwrap of _print is reached with an   *)
(* Err only when an argument's fmt returned it, never after write_str.     *)
(***************************************************************************)
C11_WriteStrNeverFails ==
    /\ ~index_panic
    /\ \A p \in Paths :
           pc[p] = "unwrap_err" => (args[p] # <<>> /\ Head(args[p]).k = "err")
    /\ \A n \in 0 .. MaxLen : \A s \in StringsOfLen(n) :
           LET r == write_str(Self, s)
           IN  r.result = "Ok" /\ ~r.w.index_panic

\* A whole println! went through write_str, line transition included, and
\* unwrap passed: the guard is dropped and _start runs on.
C11_Witness ==
    /\ pc["start"] = "idle"
    /\ ncalls >= 1
    /\ ~lock
    /\ last.op = "write_string"
    /\ last.s = <<NEWLINE>>
    /\ calls.new_lines = 1
    /\ ~index_panic

(***************************************************************************)
(* C12: writing is compositional.  From every reachable state that leaves  *)
(* MaxConcat bytes of the budget, for all strings s1, s2 of up to          *)
(* MaxConcat bytes together, write_string(s1) then                         *)
(* write_string(s2) gives the same Writer (grid, column_position) and the  *)
(* same sequence of write_byte calls and cell writes as                    *)
(* write_string(s1 \o s2); println! of the two pieces gives the same as    *)
(* print! of them followed by write_byte(newline).                         *)
(***************************************************************************)
C12_Concatenation ==
    nbytes + MaxConcat <= MaxBytes =>
        \A n \in 0 .. MaxConcat :
            \A s \in StringsOfLen(n) :
                LET whole == write_string(Self, s)
                IN  \A k \in 0 .. n :
                        LET s1 == SubSeq(s, 1, k)
                            s2 == SubSeq(s, k + 1, n)
                        IN  (IsUtf8(s1) /\ IsUtf8(s2)) =>
                                /\ write_string(write_string(Self, s1), s2) = whole
                                /\ print_macro(Self, <<s1, s2>>) = whole
                                /\ println_macro(Self, <<s1, s2>>)
                                       = write_byte(whole, NEWLINE)

\* A write_string that went on in the middle of a line other writes had
\* begun, and ran over the end of the line.
C12_Witness ==
    /\ last.op = "write_string"
    /\ Len(last.s) >= 2
    /\ last.col > 0
    /\ nbytes > Len(last.s)
    /\ calls.new_lines >= 1
    /\ column_position > 0

(***************************************************************************)
(* C13: attribute packing.  For every foreground and background colour in *)
(* 0 .. 15, ColorCode::new gives background * 16 + foreground: a value of  *)
(* 8 bits with the foreground in bits 0-3 and the background in bits 4-7,  *)
(* made by no other pair; yellow on black, the WRITER's pair, gives 0x0E.  *)
(***************************************************************************)
C13_AttributePacking ==
    LET fg == color_in.foreground
        bg == color_in.background
    IN  /\ color_code = bg * 16 + fg
        /\ color_code \in 0 .. 255
        /\ color_code % 16 = fg
        /\ color_code \div 16 = bg
        /\ \A fg2 \in Colors : \A bg2 \in Colors :
               ColorCode_new(fg2, bg2) = color_code => (fg2 = fg /\ bg2 = bg)
        /\ (fg = Yellow /\ bg = Black) => color_code = 14

\* The WRITER's pair, and a byte written with the attribute made from it.
C13_Witness ==
    /\ color_in = [foreground |-> Yellow, background |-> Black]
    /\ color_code = 14
    /\ last.op = "write_byte"
    /\ chars[BottomRow][0] = ScreenChar(120, 14)

\* A line transition is under way.
InShift == job.phase \in {"read", "write", "clear", "reset"}

\* The grid the transition under way ends with: new_line as one operation,
\* applied to the grid the transition started from.
ShiftedGrid == new_line([Self EXCEPT !.chars = job.pre]).chars

(***************************************************************************)
(* C14: order of the shift.  While a line transition is under way, the     *)
(* copies go through rows 1 .. height-1 in increasing order, each a read   *)
(* of [row][col] followed by a write to [row-1][col]: the cells before the *)
(* loop position hold their final value, all others the value from before  *)
(* the transition, and the value read is always the one from before the    *)
(* transition (no cell is overwritten before it is read).  The bottom row  *)
(* is blanked only after all the copies, and the transition ends with the  *)
(* grid new_line specifies.                                                *)
(***************************************************************************)
C14_ShiftOrder ==
    InShift =>
        /\ \A r \in Rows : \A c \in Cols :
               chars[r][c] \in {job.pre[r][c], ShiftedGrid[r][c]}
        /\ job.phase \in {"read", "write"} =>
               /\ job.row \in FIRST_COPY_ROW .. (BUFFER_HEIGHT - 1)
               /\ job.col \in Cols
               /\ chars[BUFFER_HEIGHT - 1] = job.pre[BUFFER_HEIGHT - 1]
               /\ \A r \in 0 .. (BUFFER_HEIGHT - 2) : \A c \in Cols :
                      chars[r][c] = IF r + 1 < job.row \/ (r + 1 = job.row /\ c < job.col)
                                    THEN job.pre[r + 1][c]
                                    ELSE job.pre[r][c]
               /\ job.copies = (job.row - FIRST_COPY_ROW) * BUFFER_WIDTH + job.col
               /\ job.blanks = 0
        /\ job.phase = "write" => job.character = job.pre[job.row][job.col]
        /\ job.phase = "clear" =>
               /\ \A r \in 0 .. (BUFFER_HEIGHT - 2) : chars[r] = job.pre[r + 1]
               /\ \A c \in Cols :
                      chars[BUFFER_HEIGHT - 1][c] =
                          IF c < job.col THEN ScreenChar(SPACE, color_code)
                          ELSE job.pre[BUFFER_HEIGHT - 1][c]
        /\ job.phase = "reset" => chars = ShiftedGrid

\* The last copy of a transition is about to be written: the grid is
\* neither the one before the transition nor the one after it.
C14_Witness ==
    /\ job.phase = "write"
    /\ job.row = BUFFER_HEIGHT - 1
    /\ job.col = BUFFER_WIDTH - 1
    /\ chars # job.pre
    /\ chars # ShiftedGrid
    /\ chars[0] = job.pre[1]
    /\ job.character = job.pre[job.row][job.col]

(***************************************************************************)
(* C15: the lock spans the whole _print.  The guard is dropped only when   *)
(* every piece of the call has been written; whenever the lock is free no  *)
(* path is inside write_fmt, no write_string is half done and the grid is  *)
(* not partially shifted; and every step that touches the grid or the      *)
(* column is made under the lock by the one path that holds the guard, so  *)
(* the bytes of two calls are never interleaved.                           *)
(***************************************************************************)
C15_LockSpansPrint ==
    [][/\ ~lock' => (/\ job'.phase = "idle"
                     /\ \A p \in Paths : pc'[p] \notin {"fmt", "unwrap_err"})
       /\ (lock /\ ~lock') => (/\ job.phase = "idle"
                               /\ HoldsGuard(cpu)
                               /\ args[cpu] = <<>>)
       /\ (chars' # chars \/ column_position' # column_position \/ job' # job) =>
              /\ lock /\ lock'
              /\ pc[cpu] = "fmt"
              /\ \A q \in Paths \ {cpu} : ~HoldsGuard(q)
      ]_vars

\* Two calls of the normal path and the call of the panic handler, each
\* written whole under the lock, line transitions included; the lock is free.
C15_Witness ==
    /\ ~lock
    /\ ncalls = 2
    /\ pc["start"] = "idle"
    /\ pc["panic"] = "halt"
    /\ job.phase = "idle"
    /\ Len(hist) >= 2
    /\ column_position = 0

\* A fault was raised while the lock was held: the panic handler is in
\* control and the interrupted path still has the guard.
FaultUnderLock == cpu = "panic" /\ HoldsGuard("start")

(***************************************************************************)
(* C16: termination.  A line transition makes exactly (height-1) * width   *)
(* cell copies and then width blank writes; every new_line, write_byte and *)
(* write_string that was begun comes to its end; and, the processor always *)
(* taking its next step, every path waiting for the lock gets the guard    *)
(* and every _print that has it writes all its pieces and drops it, unless *)
(* a fault was raised while the lock was held.                             *)
(***************************************************************************)
C16_Termination ==
    /\ [](job.phase = "clear" =>
             /\ job.copies = (BUFFER_HEIGHT - 1) * BUFFER_WIDTH
             /\ job.blanks = job.col)
    /\ [](job.phase = "reset" =>
             /\ job.copies = (BUFFER_HEIGHT - 1) * BUFFER_WIDTH
             /\ job.blanks = BUFFER_WIDTH)
    /\ InShift ~> (job.phase \in {"place", "byte"})
    /\ (job.phase \in {"read", "write", "clear", "reset", "place"}) ~> (job.phase = "byte")
    /\ (job.phase # "idle") ~> (job.phase = "idle")
    /\ \A p \in Paths :
           /\ (pc[p] = "lock") ~> (pc[p] = "fmt" \/ FaultUnderLock)
           /\ (pc[p] = "fmt") ~> ((pc[p] \in {"idle", "halt"} /\ ~lock) \/ FaultUnderLock)

\* The panic handler, in control after a panic outside _print, got the
\* lock, and the line transition of its message has made all its writes.
C16_Witness ==
    /\ cpu = "panic"
    /\ pc["panic"] = "fmt"
    /\ ~HoldsGuard("start")
    /\ job.phase = "reset"
    /\ job.copies = (BUFFER_HEIGHT - 1) * BUFFER_WIDTH
    /\ job.blanks = BUFFER_WIDTH

(***************************************************************************)
(* C17: only the bottom row is written directly.  A cell of a row above    *)
(* the bottom row changes only by a copy of a line transition, and only to *)
(* the value the cell directly below it holds at that moment; and between  *)
(* transitions, the content the bottom row had just before the j-th most   *)
(* recent transition stands in row height-1-j, for the last height-1       *)
(* transitions.                                                            *)
(***************************************************************************)
C17_ScrollHistory ==
    /\ [][\A r \in 0 .. (BUFFER_HEIGHT - 2) : \A c \in Cols :
             chars'[r][c] # chars[r][c] =>
                 /\ job.phase = "write"
                 /\ r = job.row - 1
                 /\ c = job.col
                 /\ chars'[r][c] = chars[r + 1][c]
         ]_vars
    /\ [](~InShift =>
             /\ Len(hist) <= BUFFER_HEIGHT - 1
             /\ \A j \in 1 .. Len(hist) : chars[BUFFER_HEIGHT - 1 - j] = hist[j])

\* height-1 transitions were made, from bottom rows that held different
\* text; both rows of text stand above the bottom row, in order.
C17_Witness ==
    /\ ~InShift
    /\ Len(hist) = BUFFER_HEIGHT - 1
    /\ hist[1] # hist[2]
    /\ hist[1][0].color_code = color_code
    /\ hist[2][0].color_code = color_code
    /\ chars[BUFFER_HEIGHT - 2] = hist[1]
    /\ chars[BUFFER_HEIGHT - 3] = hist[2]

(***************************************************************************)
(* C20: every grid access is in bounds.  At the moment of its cell write,  *)
(* write_byte indexes row height-1 and a column below the width; every     *)
(* read and write of new_line and every write of clear_row uses a row in   *)
(* 0 .. height-1 and a column in 0 .. width-1; no index panic occurs.      *)
(***************************************************************************)
C20_AccessesInBounds ==
    /\ ~index_panic
    /\ job.phase = "place" =>
           /\ place_row = BUFFER_HEIGHT - 1
           /\ column_position \in Cols
    /\ job.phase = "read" => (job.row \in Rows /\ job.col \in Cols)
    /\ job.phase = "write" => (dest_row(job.row) \in Rows /\ job.col \in Cols)
    /\ job.phase = "clear" => (job.row \in Rows /\ job.col \in Cols)

\* A byte found the line full: the line transition was made and the byte is
\* about to be written at column 0 of the bottom row.
C20_Witness ==
    /\ job.phase = "place"
    /\ job.then = "place"
    /\ column_position = 0
    /\ job.pre[BUFFER_HEIGHT - 1][BUFFER_WIDTH - 1].ascii_character # SPACE
    /\ ~index_panic

\* The cells the firmware left: those of the initial grids.
FirmwareCells == {g[r][c] : g \in InitGrids, r \in Rows, c \in Cols}

(***************************************************************************)
(* C19: the attribute never changes.  In every reachable state color_code  *)
(* is the value WRITER was built with, 0x0E; every cell is either one the  *)
(* firmware left or carries 0x0E; the cell a byte was just written to      *)
(* carries 0x0E, and so does every cell of a bottom row just blanked.      *)
(***************************************************************************)
C19_AttributeConstant ==
    /\ color_code = ColorCode_new(Yellow, Black)
    /\ color_code = 14
    /\ \A r \in Rows : \A c \in Cols :
           chars[r][c].color_code = 14 \/ chars[r][c] \in FirmwareCells
    /\ (last.op # "init" /\ column_position > 0) =>
           chars[BUFFER_HEIGHT - 1][column_position - 1].color_code = 14
    /\ (calls.new_lines > 0 /\ column_position = 0) =>
           \A c \in Cols : chars[BUFFER_HEIGHT - 1][c] = ScreenChar(SPACE, 14)

\* A string was written across a line transition: written, copied and
\* blanked cells are on screen, and color_code is what it was.
C19_Witness ==
    /\ last.op = "write_string"
    /\ calls.new_lines >= 1
    /\ column_position = 1
    /\ color_code = 14
    /\ chars[BUFFER_HEIGHT - 1][0] = ScreenChar(120, 14)
    /\ chars[BUFFER_HEIGHT - 1][1] = ScreenChar(SPACE, 14)
    /\ chars[BUFFER_HEIGHT - 2][0] = ScreenChar(121, 14)

\* The panic handler came to its loop {}: nothing more happens in the run.
PanicHandled == pc["panic"] = "halt"

(***************************************************************************)
(* C18: the exit code tells the outcome of the test run.  The success code *)
(* (0x10) is written to the exit port only when every test of the list has *)
(* run and passed; and a run in which a test panicked has written the      *)
(* failure code (0x11) by the time the panic handler has printed the       *)
(* message and entered its endless loop.                                   *)
(***************************************************************************)
C18_ExitCodeTellsOutcome ==
    /\ Success \in {harness.port[i] : i \in 1 .. Len(harness.port)} =>
           /\ harness.next > Len(harness.tests)
           /\ \A i \in 1 .. Len(harness.tests) : harness.tests[i] = "pass"
    /\ PanicHandled => Failed \in {harness.port[i] : i \in 1 .. Len(harness.port)}


\* The last operation was a write_string begun at column 0.
StringFromLineStart == last.op = "write_string" /\ last.col = 0

\* The string of the last operation was a full line and then a newline.
FullLineThenNewline ==
    /\ Len(last.s) = BUFFER_WIDTH + 1
    /\ NoNewlineIn(SubSeq(last.s, 1, BUFFER_WIDTH))
    /\ last.s[BUFFER_WIDTH + 1] = NEWLINE

(***************************************************************************)
(* C21: wrapping is deferred.  A write_string begun at column 0 with       *)
(* exactly width bytes other than newline and then a newline makes one     *)
(* line transition, not two: the full line stands in row height-2, the     *)
(* bottom row is blank and column_position is 0.  A write_string begun at  *)
(* column 0 with n >= 1 bytes, none a newline, makes exactly               *)
(* ceil(n / width) - 1 line transitions.                                   *)
(***************************************************************************)
C21_DeferredWrap ==
    StringFromLineStart =>
        /\ FullLineThenNewline =>
               /\ calls.new_lines = 1
               /\ column_position = 0
               /\ chars[BUFFER_HEIGHT - 1] = BlankRow(color_code)
               /\ \A c \in Cols :
                      chars[BUFFER_HEIGHT - 2][c] =
                          ScreenChar(Forwarded(last.s[c + 1]), color_code)
        /\ (Len(last.s) >= 1 /\ NoNewlineIn(last.s)) =>
               calls.new_lines =
                   ((Len(last.s) + BUFFER_WIDTH - 1) \div BUFFER_WIDTH) - 1

\* A full line and a newline were written in one write_string from column
\* 0 of a grid with stale content: one transition was made.
C21_Witness ==
    /\ StringFromLineStart
    /\ FullLineThenNewline
    /\ calls.new_lines = 1
    /\ column_position = 0
    /\ chars[BUFFER_HEIGHT - 2][BUFFER_WIDTH - 1].ascii_character = 121
    /\ chars[0] # BlankRow(LightGray)


\* Every bottom-row cell at or right of column_position is a blank cell:
\* the space character with the writer's attribute.
BottomTailBlank ==
    \A c \in Cols :
        c >= column_position => chars[BUFFER_HEIGHT - 1][c] = Blank(color_code)

(***************************************************************************)
(* C22: the unwritten part of the bottom row is blank.  Every write_byte,  *)
(* write_string or new_line that makes a line transition ends with every   *)
(* bottom-row cell at a column >= column_position blank, and every         *)
(* operation begun in such a state (after a transition, or on a grid that  *)
(* was all blank from the start) ends in such a state.                     *)
(***************************************************************************)
C22_BottomTailBlank ==
    [][(BottomTailBlank \/ calls'.new_lines >= 1) => BottomTailBlank']_vars

\* Over stale firmware content a transition was made and part of the new
\* bottom row written: the rest of the row is blank, the row above is not.
C22_Witness ==
    /\ BottomTailBlank
    /\ calls.new_lines >= 1
    /\ column_position \in 1 .. (BUFFER_WIDTH - 1)
    /\ chars[BUFFER_HEIGHT - 1][0].ascii_character # SPACE
    /\ chars[BUFFER_HEIGHT - 2] = StaleGrid[BUFFER_HEIGHT - 1]

====
